---- MODULE Spec2Model ----
(***************************************************************************)
(* Model of stacks-core/src/utils.rs: the validated ContractName newtype,  *)
(* the lazily compiled CONTRACT_NAME_REGEX and the PrincipalData union.    *)
(*                                                                         *)
(* A Rust string is a sequence of characters; a character is written as a  *)
(* one-character TLA+ string ("U+00E9" stands for the two-byte character   *)
(* e-acute).  The regex pattern is built by Format from the format!        *)
(* templates of the source, parsed by RegexNew and run by is_match.        *)
(***************************************************************************)
EXTENDS Integers, Sequences, FiniteSets

\* ------------------------------------------------------------------------
\* Characters
\* ------------------------------------------------------------------------

\* Printable ASCII in code-point order, starting at U+0020.
AsciiTable ==
  << " ", "!", "U+0022", "#", "$", "%", "&", "'", "(", ")", "*", "+", ",", "-",
     ".", "/", "0", "1", "2", "3", "4", "5", "6", "7", "8", "9", ":", ";",
     "<", "=", ">", "?", "@", "A", "B", "C", "D", "E", "F", "G", "H", "I",
     "J", "K", "L", "M", "N", "O", "P", "Q", "R", "S", "T", "U", "V", "W",
     "X", "Y", "Z", "[", "U+005C", "]", "^", "_", "U+0060", "a", "b", "c", "d", "e",
     "f", "g", "h", "i", "j", "k", "l", "m", "n", "o", "p", "q", "r", "s",
     "t", "u", "v", "w", "x", "y", "z", "{", "|", "}", "~" >>

AsciiBase == 31

AsciiChars == { AsciiTable[k] : k \in DOMAIN AsciiTable }

\* The Unicode scalar value of a character.
CodePoint(c) ==
  IF c \in AsciiChars
    THEN AsciiBase + (CHOOSE k \in DOMAIN AsciiTable : AsciiTable[k] = c)
    ELSE 233

\* Number of bytes of the UTF-8 encoding of a character.
Utf8Len(c) == IF CodePoint(c) < 128 THEN 1 ELSE 2

\* The one element of a singleton set.  An intermediate result is bound
\* through a singleton set wherever it is used more than once, so that it
\* is computed once.
The(S) == CHOOSE v \in S : TRUE

\* The character at position i of p, or "EOF" outside p.
At(p, i) == IF i >= 1 /\ i <= Len(p) THEN p[i] ELSE "EOF"

\* The number of bytes of the characters of s from position i on.
RECURSIVE StrLenFrom(_, _)
StrLenFrom(s, i) ==
  IF i > Len(s) THEN 0 ELSE Utf8Len(s[i]) + StrLenFrom(s, i + 1)

\* str::len(): the length of a string in BYTES.
StrLen(s) == StrLenFrom(s, 1)

\* The characters whose code point lies in lo..hi (a regex class range).
CharRange(lo, hi) ==
  { AsciiTable[cp - AsciiBase] : cp \in CodePoint(lo)..CodePoint(hi) }

DigitChars == << "0", "1", "2", "3", "4", "5", "6", "7", "8", "9" >>

\* Display for usize: the decimal digits of n.
RECURSIVE DecStr(_)
DecStr(n) ==
  IF n < 10 THEN << DigitChars[n + 1] >>
            ELSE DecStr(n \div 10) \o << DigitChars[(n % 10) + 1] >>

\* ------------------------------------------------------------------------
\* format!
\* ------------------------------------------------------------------------

\* The expansion of the template tpl from position i on, k being the index
\* of the next argument: "{{" and "}}" are escaped braces, "{}" is replaced
\* by the next argument.
RECURSIVE FormatFrom(_, _, _, _)
FormatFrom(tpl, i, args, k) ==
  IF i > Len(tpl) THEN << >>
  ELSE IF tpl[i] = "{" /\ At(tpl, i + 1) = "{"
    THEN << "{" >> \o FormatFrom(tpl, i + 2, args, k)
  ELSE IF tpl[i] = "}" /\ At(tpl, i + 1) = "}"
    THEN << "}" >> \o FormatFrom(tpl, i + 2, args, k)
  ELSE IF tpl[i] = "{" /\ At(tpl, i + 1) = "}"
    THEN args[k] \o FormatFrom(tpl, i + 2, args, k + 1)
  ELSE << tpl[i] >> \o FormatFrom(tpl, i + 1, args, k)

\* format!(tpl, args...); args is a sequence of already displayed strings.
Format(tpl, args) == FormatFrom(tpl, 1, args, 1)

\* ------------------------------------------------------------------------
\* Program constants
\* ------------------------------------------------------------------------

CONTRACT_MIN_NAME_LENGTH == 1
CONTRACT_MAX_NAME_LENGTH == 40

\* UsizeSub with the operands swapped.
UsizeSubSwapped(a, b) == IF b >= a THEN [ok |-> TRUE, v |-> b - a]
                                  ELSE [ok |-> FALSE, v |-> 0]

\* usize subtraction: a negative difference is an arithmetic overflow.
UsizeSub(a, b) == IF a >= b THEN [ok |-> TRUE, v |-> a - b]
                            ELSE [ok |-> FALSE, v |-> 0]

\* NameTemplate without the hyphen in the second class: [_] for [-_].
NameTemplateNoHyphen ==
  << "(", "[", "a", "-", "z", "A", "-", "Z", "]",
     "(", "(", "[", "a", "-", "z", "A", "-", "Z", "0", "-", "9", "]",
     "|", "[", "_", "]", ")", ")",
     "{", "{", "{", "}", ",", "{", "}", "}", "}", ")" >>

\* r#"([a-zA-Z](([a-zA-Z0-9]|[-_])){{{},{}}})"#
NameTemplate ==
  << "(", "[", "a", "-", "z", "A", "-", "Z", "]",
     "(", "(", "[", "a", "-", "z", "A", "-", "Z", "0", "-", "9", "]",
     "|", "[", "-", "_", "]", ")", ")",
     "{", "{", "{", "}", ",", "{", "}", "}", "}", ")" >>

\* RegexTemplate without the anchors: "{}|__transient".
RegexTemplateUnanchored ==
  << "{", "}", "|",
     "_", "_", "t", "r", "a", "n", "s", "i", "e", "n", "t" >>

\* "^{}$|^__transient$"
RegexTemplate ==
  << "^", "{", "}", "$", "|", "^",
     "_", "_", "t", "r", "a", "n", "s", "i", "e", "n", "t", "$" >>

\* ------------------------------------------------------------------------
\* regex::Regex -- the syntax the pattern uses: literals, classes with
\* ranges, groups, alternation, counted repetition {m,n}, anchors ^ and $
\* (no flags: multi-line mode is off, so $ matches only at the end of text).
\* ------------------------------------------------------------------------

Node(op, set, subs, min, max) ==
  [op |-> op, set |-> set, subs |-> subs, min |-> min, max |-> max]

ClassNode(set)         == Node("class", set, << >>, 0, 0)
AnchorNode(op)         == Node(op, {}, << >>, 0, 0)
CatNode(subs)          == Node("cat", {}, subs, 0, 0)
AltNode(subs)          == Node("alt", {}, subs, 0, 0)
RepNode(sub, min, max) == Node("rep", {}, << sub >>, min, max)

ParseOk(ast, pos) == [ok |-> TRUE, ast |-> ast, pos |-> pos]
ParseErr          == [ok |-> FALSE, ast |-> AnchorNode("none"), pos |-> 0]

IsDigit(c) == c \in { DigitChars[k] : k \in DOMAIN DigitChars }

DigitVal(c) == (CHOOSE k \in DOMAIN DigitChars : DigitChars[k] = c) - 1

\* A decimal number starting at position i (acc is the value read so far,
\* n the number of digits read).
RECURSIVE ParseNat(_, _, _, _)
ParseNat(p, i, acc, n) ==
  IF IsDigit(At(p, i))
    THEN ParseNat(p, i + 1, 10 * acc + DigitVal(p[i]), n + 1)
    ELSE [ok |-> n > 0, v |-> acc, pos |-> i]

\* The items of a bracketed class, i pointing after "[" or after the last
\* item; acc is the set collected so far.
RECURSIVE ParseClass(_, _, _)
ParseClass(p, i, acc) ==
  IF i > Len(p) THEN ParseErr
  ELSE IF p[i] = "]"
    THEN IF acc = {} THEN ParseErr ELSE ParseOk(ClassNode(acc), i + 1)
  ELSE IF At(p, i + 1) = "-" /\ i + 2 <= Len(p) /\ p[i + 2] # "]"
    THEN IF CodePoint(p[i]) > CodePoint(p[i + 2])
           THEN ParseErr
           ELSE ParseClass(p, i + 3, acc \cup CharRange(p[i], p[i + 2]))
  ELSE ParseClass(p, i + 1, acc \cup { p[i] })

RECURSIVE ParseAlt(_, _)
RECURSIVE ParseAltRest(_, _, _)
RECURSIVE ParseConcat(_, _, _)
RECURSIVE ParseRepeat(_, _)
RECURSIVE ParseAtom(_, _)

ParseAtom(p, i) ==
  IF At(p, i) = "(" THEN
    The({ IF r.ok /\ At(p, r.pos) = ")" THEN ParseOk(r.ast, r.pos + 1)
                                        ELSE ParseErr :
          r \in { ParseAlt(p, i + 1) } })
  ELSE IF At(p, i) = "[" THEN ParseClass(p, i + 1, {})
  ELSE IF At(p, i) = "^" THEN ParseOk(AnchorNode("start"), i + 1)
  ELSE IF At(p, i) = "$" THEN ParseOk(AnchorNode("end"), i + 1)
  ELSE IF At(p, i) \in { "EOF", ")", "|", "{", "}", "]", "*", "+", "?",
                         "U+005C" }
    THEN ParseErr
  ELSE ParseOk(ClassNode({ p[i] }), i + 1)

\* The counted repetition {m,n} of the atom a, whose "{" is at a.pos;
\* m > n is an error.
ParseCount(p, a) ==
  The({ IF ~m.ok \/ At(p, m.pos) # "," THEN ParseErr
        ELSE The({ IF ~n.ok \/ At(p, n.pos) # "}" \/ m.v > n.v
                     THEN ParseErr
                     ELSE ParseOk(RepNode(a.ast, m.v, n.v), n.pos + 1) :
                   n \in { ParseNat(p, m.pos + 1, 0, 0) } }) :
        m \in { ParseNat(p, a.pos + 1, 0, 0) } })

\* An atom and its optional counted repetition.
ParseRepeat(p, i) ==
  The({ IF ~a.ok THEN ParseErr
        ELSE IF At(p, a.pos) # "{" THEN a
        ELSE ParseCount(p, a) :
        a \in { ParseAtom(p, i) } })

ParseConcat(p, i, acc) ==
  IF At(p, i) \in { "EOF", "|", ")" } THEN ParseOk(CatNode(acc), i)
  ELSE
    The({ IF r.ok THEN ParseConcat(p, r.pos, Append(acc, r.ast))
                  ELSE ParseErr :
          r \in { ParseRepeat(p, i) } })

ParseAltRest(p, i, acc) ==
  IF At(p, i) # "|" THEN ParseOk(AltNode(acc), i)
  ELSE
    The({ IF r.ok THEN ParseAltRest(p, r.pos, Append(acc, r.ast))
                  ELSE ParseErr :
          r \in { ParseConcat(p, i + 1, << >>) } })

ParseAlt(p, i) ==
  The({ IF r.ok THEN ParseAltRest(p, r.pos, << r.ast >>) ELSE ParseErr :
        r \in { ParseConcat(p, i, << >>) } })

\* Regex::new(pattern): Ok(regex) or Err on a syntax error.
RegexNew(pattern) ==
  The({ The({ [ok |-> r.ok /\ r.pos = Len(p) + 1, re |-> r.ast] :
              r \in { ParseAlt(p, 1) } }) :
        p \in { pattern } })

RECURSIVE MatchEnds(_, _, _)
RECURSIVE CatEnds(_, _, _, _)
RECURSIVE RepEnds(_, _, _, _, _, _)

\* The positions at which a match of r that starts at position i of s can
\* end (a position is the number of characters before it).
MatchEnds(r, s, i) ==
  IF r.op = "class"
    THEN IF i < Len(s) /\ s[i + 1] \in r.set THEN { i + 1 } ELSE {}
  ELSE IF r.op = "start" THEN IF i = 0 THEN { i } ELSE {}
  ELSE IF r.op = "end" THEN IF i = Len(s) THEN { i } ELSE {}
  ELSE IF r.op = "cat" THEN CatEnds(r.subs, 1, s, { i })
  ELSE IF r.op = "alt"
    THEN UNION { MatchEnds(r.subs[k], s, i) : k \in DOMAIN r.subs }
  ELSE IF r.op = "rep" THEN RepEnds(r.subs[1], s, { i }, 0, r.min, r.max)
  ELSE {}

\* from: the positions reached after subs[1] .. subs[k - 1].
CatEnds(subs, k, s, from) ==
  IF k > Len(subs) \/ from = {} THEN from
  ELSE UNION { CatEnds(subs, k + 1, s, next) :
               next \in { UNION { MatchEnds(subs[k], s, j) : j \in from } } }

\* from: the positions reached after exactly n repetitions of sub.
RepEnds(sub, s, from, n, min, max) ==
  (IF n >= min THEN from ELSE {})
    \cup (IF n < max /\ from # {}
            THEN UNION { RepEnds(sub, s, next, n + 1, min, max) :
                         next \in { UNION { MatchEnds(sub, s, j) :
                                            j \in from } } }
            ELSE {})

\* Regex::is_match(text): the regex matches somewhere in text.
is_match(re, text) == \E i \in 0..Len(text) : MatchEnds(re, text, i) # {}

\* ------------------------------------------------------------------------
\* The lazily built pattern and regex of the source
\* ------------------------------------------------------------------------

\* CONTRACT_NAME_REGEX_STRING with the upper bound not reduced by the first
\* character: {0,40} instead of {0,39}.
RegexStringUpperOffByOne ==
  [ok |-> TRUE,
   s |-> Format(NameTemplate,
                << DecStr(CONTRACT_MIN_NAME_LENGTH - 1),
                   DecStr(CONTRACT_MAX_NAME_LENGTH) >>)]

\* The closure of CONTRACT_NAME_REGEX_STRING: the pattern, or an
\* arithmetic overflow in one of the two subtractions.
CONTRACT_NAME_REGEX_STRING ==
  LET lo == UsizeSub(CONTRACT_MIN_NAME_LENGTH, 1)
      hi == UsizeSub(CONTRACT_MAX_NAME_LENGTH, 1)
  IN  IF lo.ok /\ hi.ok
        THEN [ok |-> TRUE,
              s |-> Format(NameTemplate, << DecStr(lo.v), DecStr(hi.v) >>)]
        ELSE [ok |-> FALSE, s |-> << >>]

\* The closure of CONTRACT_NAME_REGEX applied to the pattern string:
\* Regex::new(format!("^{}$|^__transient$", string)).
RegexOfString(str) == RegexNew(Format(RegexTemplate, << str >>))
\* ------------------------------------------------------------------------
\* ContractName
\* ------------------------------------------------------------------------

\* LengthPrecheck with the two comparisons joined by ||.
LengthPrecheckOr(contract_name) ==
  \/ StrLen(contract_name) < CONTRACT_MIN_NAME_LENGTH
  \/ StrLen(contract_name) > CONTRACT_MAX_NAME_LENGTH

\* LengthPrecheck with the upper comparison alone.
LengthPrecheckMaxOnly(contract_name) ==
  StrLen(contract_name) > CONTRACT_MAX_NAME_LENGTH

\* The condition of the first branch of ContractName::new.
LengthPrecheck(contract_name) ==
  /\ StrLen(contract_name) < CONTRACT_MIN_NAME_LENGTH
  /\ StrLen(contract_name) > CONTRACT_MAX_NAME_LENGTH

\* to_string replaced by a lower-casing copy.
to_lowercase(str) ==
  [k \in 1..Len(str) |->
     IF CodePoint(str[k]) \in CodePoint("A")..CodePoint("Z")
       THEN AsciiTable[CodePoint(str[k]) + 32 - AsciiBase]
       ELSE str[k]]

\* str::to_string(): an owned copy, built character by character.
to_string(str) == [k \in 1..Len(str) |-> str[k]]

\* The tuple struct ContractName(String): field 0 is component 1.
ContractName(string) == << string >>

\* What a slot holds when it holds no ContractName.
NoName == << >>

Ok(name)      == [tag |-> "Ok", name |-> name]
Err(kind)     == [tag |-> kind, name |-> NoName]
NoResult      == [tag |-> "None", name |-> NoName]

\* The second and third branch of ContractName::new, given the regex that
\* the dereference of CONTRACT_NAME_REGEX produced.
MatchBranch(regex, contract_name) ==
  IF is_match(regex, contract_name)
    THEN Ok(ContractName(to_string(contract_name)))
    ELSE Err("InvalidFormat")

\* AsRef<str>, Deref, Borrow<str>, Into<String> and Display of ContractName.
as_ref(name)  == name[1]
deref(name)   == name[1]
borrow(name)  == as_ref(name)
into(name)    == name[1]
fmt(name)     == name[1]

Accessors == { "as_ref", "deref", "borrow", "into", "fmt" }

Access(acc, name) ==
  CASE acc = "as_ref" -> as_ref(name)
    [] acc = "deref"  -> deref(name)
    [] acc = "borrow" -> borrow(name)
    [] acc = "into"   -> into(name)
    [] acc = "fmt"    -> fmt(name)

\* ------------------------------------------------------------------------
\* PrincipalData
\* ------------------------------------------------------------------------

AddressVersions == { "MainnetSingleSig", "TestnetSingleSig" }
StacksAddresses == { "hash160-A" }

StandardPrincipalData_new(version, address) == << version, address >>

NoPrincipal == [tag |-> "None", std |-> << >>, name |-> NoName]
Standard(std) == [tag |-> "Standard", std |-> std, name |-> NoName]
Contract(std, name) == [tag |-> "Contract", std |-> std, name |-> name]

\* ------------------------------------------------------------------------
\* Inputs
\* ------------------------------------------------------------------------

MaxShort == 2
Margin == 1
NumThreads == 2

InputChars == { "a", "Z", "7", "-", "_", "!", "U+00E9" }

Repeat(c, n) == [k \in 1..n |-> c]

Transient == << "_", "_", "t", "r", "a", "n", "s", "i", "e", "n", "t" >>

\* Every string of at most MaxShort characters.
ShortInputs == UNION { [1..n -> InputChars] : n \in 0..MaxShort }

\* Strings around the maximum length: a first character, a filling and a
\* last character.
LongInputs ==
  { << h >> \o Repeat(f, n - 2) \o << l >> :
      h \in InputChars, f \in InputChars, l \in InputChars,
      n \in (CONTRACT_MAX_NAME_LENGTH - Margin)
              ..(CONTRACT_MAX_NAME_LENGTH + Margin) }

\* The reserved literal and its neighbours.
TransientInputs ==
  { Transient, SubSeq(Transient, 1, Len(Transient) - 1), Tail(Transient) }
    \cup { Transient \o << c >> : c \in InputChars }
    \cup { << c >> \o Transient : c \in InputChars }

Inputs == ShortInputs \cup LongInputs \cup TransientInputs

\* The literal scenarios: "my-contract", "", "1abc", "__transient",
\* "a" * 40, "a" * 41 and "token-v2".
ScenarioInputs ==
  { << "m", "y", "-", "c", "o", "n", "t", "r", "a", "c", "t" >>,
    << >>,
    << "1", "a", "b", "c" >>,
    Transient,
    Repeat("a", CONTRACT_MAX_NAME_LENGTH),
    Repeat("a", CONTRACT_MAX_NAME_LENGTH + 1),
    << "t", "o", "k", "e", "n", "-", "v", "2" >> }

\* ------------------------------------------------------------------------
\* State
\* ------------------------------------------------------------------------

VARIABLES
  pc,          \* per thread: where it is in its call of ContractName::new
  input,       \* per thread: the argument contract_name of the call
  result,      \* per thread: what the call returned
  prev,        \* per thread: the name whose string is being validated again
  principal,   \* per thread: the PrincipalData value it owns
  stringCell,  \* the Lazy cell CONTRACT_NAME_REGEX_STRING
  regexCell,   \* the Lazy cell CONTRACT_NAME_REGEX
  inits        \* how many times each Lazy closure has run

vars == << pc, input, result, prev, principal, stringCell, regexCell, inits >>

Threads == DOMAIN pc

\* A Lazy cell whose closure has not run holds no value.
UninitString == [state |-> "uninit", value |-> << >>]
UninitRegex  == [state |-> "uninit", value |-> AnchorNode("none")]

InitShared ==
  /\ stringCell = UninitString
  /\ regexCell = UninitRegex
  /\ inits = [string |-> 0, regex |-> 0]

\* One thread whose first call is under way, on any input.
Init ==
  /\ pc = [t \in {1} |-> "new"]
  /\ input \in [{1} -> Inputs]
  /\ result = [t \in {1} |-> NoResult]
  /\ prev = [t \in {1} |-> NoName]
  /\ principal = [t \in {1} |-> NoPrincipal]
  /\ InitShared

\* NumThreads threads, none of which has called yet.
InitConc ==
  /\ pc = [t \in 1..NumThreads |-> "idle"]
  /\ input = [t \in 1..NumThreads |-> << >>]
  /\ result = [t \in 1..NumThreads |-> NoResult]
  /\ prev = [t \in 1..NumThreads |-> NoName]
  /\ principal = [t \in 1..NumThreads |-> NoPrincipal]
  /\ InitShared

\* ------------------------------------------------------------------------
\* once_cell::sync::Lazy
\* ------------------------------------------------------------------------

\* LazyMustWait that never waits.
LazyNeverWaits(cell) == FALSE

\* The dereferencing thread has to run the closure itself.
LazyMustInit(cell) == cell.state = "uninit"

\* Another thread is running the closure: the dereference waits.
LazyMustWait(cell) == cell.state = "running"

\* ------------------------------------------------------------------------
\* Actions
\* ------------------------------------------------------------------------

\* A thread calls ContractName::new(s) (or try_from(s), which forwards).
Call(t, s) ==
  /\ pc[t] = "idle"
  /\ pc' = [pc EXCEPT ![t] = "new"]
  /\ input' = [input EXCEPT ![t] = s]
  /\ result' = [result EXCEPT ![t] = NoResult]
  /\ prev' = [prev EXCEPT ![t] = NoName]
  /\ UNCHANGED << principal, stringCell, regexCell, inits >>

\* The length test of ContractName::new.
LengthCheck(t) ==
  /\ pc[t] = "new"
  /\ IF LengthPrecheck(input[t])
       THEN /\ result' = [result EXCEPT ![t] = Err("InvalidLength")]
            /\ pc' = [pc EXCEPT ![t] = "ret"]
       ELSE /\ pc' = [pc EXCEPT ![t] = "deref"]
            /\ UNCHANGED result
  /\ UNCHANGED << input, prev, principal, stringCell, regexCell, inits >>

\* The dereference of CONTRACT_NAME_REGEX in the else-if condition.
DerefRegex(t) ==
  /\ pc[t] = "deref"
  /\ ~LazyMustWait(regexCell)
  /\ IF LazyMustInit(regexCell)
       THEN /\ regexCell' = [regexCell EXCEPT !.state = "running"]
            /\ pc' = [pc EXCEPT ![t] = "regex_closure"]
       ELSE /\ pc' = [pc EXCEPT ![t] =
                        IF regexCell.state = "poisoned" THEN "panicked"
                                                        ELSE "match"]
            /\ UNCHANGED regexCell
  /\ UNCHANGED << input, result, prev, principal, stringCell, inits >>

\* The closure of CONTRACT_NAME_REGEX dereferences
\* CONTRACT_NAME_REGEX_STRING.
DerefString(t) ==
  /\ pc[t] = "regex_closure"
  /\ ~LazyMustWait(stringCell)
  /\ IF LazyMustInit(stringCell)
       THEN /\ stringCell' = [stringCell EXCEPT !.state = "running"]
            /\ pc' = [pc EXCEPT ![t] = "string_closure"]
       ELSE /\ pc' = [pc EXCEPT ![t] =
                        IF stringCell.state = "poisoned" THEN "panicked"
                                                         ELSE "compile"]
            /\ UNCHANGED stringCell
  /\ UNCHANGED << input, result, prev, principal, regexCell, inits >>

\* The closure of CONTRACT_NAME_REGEX_STRING runs and fills the cell.
StringClosure(t) ==
  /\ pc[t] = "string_closure"
  /\ inits' = [inits EXCEPT !.string = @ + 1]
  /\ IF CONTRACT_NAME_REGEX_STRING.ok
       THEN /\ stringCell' = [state |-> "init",
                              value |-> CONTRACT_NAME_REGEX_STRING.s]
            /\ pc' = [pc EXCEPT ![t] = "compile"]
       ELSE /\ stringCell' = [stringCell EXCEPT !.state = "poisoned"]
            /\ pc' = [pc EXCEPT ![t] = "panicked"]
  /\ UNCHANGED << input, result, prev, principal, regexCell >>

\* Regex::new(...).unwrap() in the closure of CONTRACT_NAME_REGEX.
Compile(t) ==
  /\ pc[t] = "compile"
  /\ inits' = [inits EXCEPT !.regex = @ + 1]
  /\ \E r \in { RegexOfString(stringCell.value) } :
       IF r.ok
         THEN /\ regexCell' = [state |-> "init", value |-> r.re]
              /\ pc' = [pc EXCEPT ![t] = "match"]
         ELSE /\ regexCell' = [regexCell EXCEPT !.state = "poisoned"]
              /\ pc' = [pc EXCEPT ![t] = "panicked"]
  /\ UNCHANGED << input, result, prev, principal, stringCell >>

\* is_match and the two branches it selects.
IsMatch(t) ==
  /\ pc[t] = "match"
  /\ result' = [result EXCEPT ![t] = MatchBranch(regexCell.value, input[t])]
  /\ pc' = [pc EXCEPT ![t] = "ret"]
  /\ UNCHANGED << input, prev, principal, stringCell, regexCell, inits >>

\* The caller drops the result.
Reset(t) ==
  /\ pc[t] = "ret"
  /\ pc' = [pc EXCEPT ![t] = "idle"]
  /\ result' = [result EXCEPT ![t] = NoResult]
  /\ prev' = [prev EXCEPT ![t] = NoName]
  /\ UNCHANGED << input, principal, stringCell, regexCell, inits >>

\* The caller validates the string representation of the name it got.
Revalidate(t, acc) ==
  /\ pc[t] = "ret"
  /\ result[t].tag = "Ok"
  /\ input' = [input EXCEPT ![t] = Access(acc, result[t].name)]
  /\ prev' = [prev EXCEPT ![t] = result[t].name]
  /\ result' = [result EXCEPT ![t] = NoResult]
  /\ pc' = [pc EXCEPT ![t] = "new"]
  /\ UNCHANGED << principal, stringCell, regexCell, inits >>

\* PrincipalData::Contract(StandardPrincipalData::new(v, a), name): the
\* name moves into the principal.
MakeContract(t, v, a) ==
  /\ pc[t] = "ret"
  /\ result[t].tag = "Ok"
  /\ principal[t].tag = "None"
  /\ principal' = [principal EXCEPT ![t] =
                     Contract(StandardPrincipalData_new(v, a), result[t].name)]
  /\ result' = [result EXCEPT ![t] = NoResult]
  /\ prev' = [prev EXCEPT ![t] = NoName]
  /\ pc' = [pc EXCEPT ![t] = "idle"]
  /\ UNCHANGED << input, stringCell, regexCell, inits >>

\* PrincipalData::Standard(StandardPrincipalData::new(v, a)).
MakeStandard(t, v, a) ==
  /\ pc[t] = "idle"
  /\ principal[t].tag = "None"
  /\ principal' = [principal EXCEPT ![t] =
                     Standard(StandardPrincipalData_new(v, a))]
  /\ UNCHANGED << pc, input, result, prev, stringCell, regexCell, inits >>

\* The owner drops its principal.
DropPrincipal(t) ==
  /\ principal[t].tag # "None"
  /\ principal' = [principal EXCEPT ![t] = NoPrincipal]
  /\ UNCHANGED << pc, input, result, prev, stringCell, regexCell, inits >>

\* The steps of one call of ContractName::new.
NewStep(t) ==
  \/ LengthCheck(t)
  \/ DerefRegex(t)
  \/ DerefString(t)
  \/ StringClosure(t)
  \/ Compile(t)
  \/ IsMatch(t)

Next ==
  \E t \in {1} :
    \/ \E s \in ScenarioInputs : Call(t, s)
    \/ NewStep(t)
    \/ Reset(t)
    \/ \E acc \in Accessors : Revalidate(t, acc)
    \/ \E v \in AddressVersions, a \in StacksAddresses : MakeContract(t, v, a)
    \/ \E v \in AddressVersions, a \in StacksAddresses : MakeStandard(t, v, a)
    \/ DropPrincipal(t)

\* Concurrent callers of ContractName::new.
NextConc ==
  \E t \in 1..NumThreads :
    \/ \E s \in ScenarioInputs : Call(t, s)
    \/ NewStep(t)
    \/ Reset(t)

Spec == Init /\ [][Next]_vars

SpecConc == InitConc /\ [][NextConc]_vars

\* ------------------------------------------------------------------------
\* ContractName::new as a function of its argument
\* ------------------------------------------------------------------------

\* ContractName::new(contract_name) run alone, with both closures run.
ContractName_new(contract_name) ==
  IF LengthPrecheck(contract_name)
    THEN Err("InvalidLength")
    ELSE The({ MatchBranch(r.re, contract_name) :
               r \in { RegexOfString(CONTRACT_NAME_REGEX_STRING.s) } })

\* ------------------------------------------------------------------------
\* The naming grammar, stated without the regex
\* ------------------------------------------------------------------------

Letters ==
  { "a", "b", "c", "d", "e", "f", "g", "h", "i", "j", "k", "l", "m",
    "n", "o", "p", "q", "r", "s", "t", "u", "v", "w", "x", "y", "z",
    "A", "B", "C", "D", "E", "F", "G", "H", "I", "J", "K", "L", "M",
    "N", "O", "P", "Q", "R", "S", "T", "U", "V", "W", "X", "Y", "Z" }

NameChars ==
  Letters \cup { "0", "1", "2", "3", "4", "5", "6", "7", "8", "9", "-", "_" }

AllowedChars(s) == \A k \in 1..Len(s) : s[k] \in NameChars

WellFormed(s) ==
  /\ Len(s) >= 1
  /\ Len(s) <= 40
  /\ s[1] \in Letters
  /\ \A k \in 2..Len(s) : s[k] \in NameChars

Returned(t) == pc[t] = "ret"

\* ------------------------------------------------------------------------
\* Properties
\* ------------------------------------------------------------------------

\* C1: a string that ContractName::new accepts is "__transient" or has 1 to
\* 40 characters, a letter first and then only letters, digits, '-' and '_';
\* a string longer than 40 or with a character outside that set (other than
\* "__transient") gets an Err.
C1_AcceptedIsWellFormed ==
  \A t \in Threads :
    Returned(t) =>
      /\ result[t].tag = "Ok" =>
           input[t] = Transient \/ WellFormed(input[t])
      /\ /\ Len(input[t]) > 40 \/ ~AllowedChars(input[t])
         /\ input[t] # Transient
         => result[t].tag \in { "InvalidLength", "InvalidFormat" }

\* An accepted string of the maximum length, and nothing else was decided.
C1_Witness ==
  \E t \in Threads :
    /\ Returned(t)
    /\ result[t].tag = "Ok"
    /\ Len(input[t]) = 40

\* C2: every string of 1 to 40 characters with a letter first and name
\* characters after it is accepted, and so is "__transient"; strings of
\* length 0 and of length 41 are rejected.
C2_WellFormedIsAccepted ==
  \A t \in Threads :
    Returned(t) =>
      /\ WellFormed(input[t]) \/ input[t] = Transient
           => result[t].tag = "Ok"
      /\ Len(input[t]) \in { 0, 41 } => result[t].tag # "Ok"

\* The reserved literal was accepted.
C2_Witness ==
  \E t \in Threads :
    /\ Returned(t)
    /\ input[t] = Transient
    /\ result[t].tag = "Ok"

\* C3: a string whose length is outside 1..40 gets Err(InvalidLength).
C3_OutOfRangeIsInvalidLength ==
  \A t \in Threads :
    Returned(t) /\ StrLen(input[t]) \notin 1..40
      => result[t] = Err("InvalidLength")

\* C4: Err(InvalidFormat) is returned only for a string whose length is in
\* 1..40, that fails the grammar and is not "__transient".
C4_InvalidFormatHasAdmissibleLength ==
  \A t \in Threads :
    Returned(t) /\ result[t].tag = "InvalidFormat"
      => /\ StrLen(input[t]) \in 1..40
         /\ ~WellFormed(input[t])
         /\ input[t] # Transient

C6_RoundTrip ==
  \A t \in Threads :
    Returned(t) =>
      /\ result[t].tag = "Ok" =>
           \A acc \in Accessors : Access(acc, result[t].name) = input[t]
      /\ prev[t] # NoName => result[t] = Ok(prev[t])

\* A second validation, of the view of a name of several characters, has
\* returned.
C6_Witness ==
  \E t \in Threads :
    /\ Returned(t)
    /\ prev[t] # NoName
    /\ Len(input[t]) > 1
    /\ result[t].tag = "Ok"

C7_Inv ==
  \A t \in Threads :
    principal[t].tag = "Contract" =>
      /\ principal[t].name # NoName
      /\ \/ WellFormed(as_ref(principal[t].name))
         \/ as_ref(principal[t].name) = Transient

C7_Step ==
  \A t \in Threads :
    /\ principal[t].tag # "Contract" /\ principal'[t].tag = "Contract"
         => /\ result[t].tag = "Ok"
            /\ principal'[t].name = result[t].name
            /\ as_ref(principal'[t].name) = input[t]
    /\ principal[t].tag = "Contract"
         => principal'[t] \in { principal[t], NoPrincipal }
    /\ result[t].tag = "Ok" /\ result'[t].tag = "Ok"
         => result'[t] = result[t]

\* C7: a Contract principal always holds a name that a successful
\* ContractName::new returned: the name satisfies the grammar or is
\* "__transient", it is the string that was validated, and no step changes
\* a name that exists.
C7_ContractHoldsValidatedName == [](C7_Inv) /\ [][C7_Step]_vars

\* A Contract principal named "token-v2" is held while its owner is inside
\* a later call.
C7_Witness ==
  \E t \in Threads :
    /\ principal[t].tag = "Contract"
    /\ as_ref(principal[t].name)
         = << "t", "o", "k", "e", "n", "-", "v", "2" >>
    /\ pc[t] = "match"

C8_Inv ==
  /\ inits.string <= 1
  /\ inits.regex <= 1
  /\ \A t \in Threads :
       /\ pc[t] = "compile" => stringCell.state = "init"
       /\ pc[t] = "match" => regexCell.state = "init"
       /\ Returned(t) => result[t] = ContractName_new(input[t])

C8_Step ==
  /\ stringCell.state = "init" => stringCell' = stringCell
  /\ regexCell.state = "init" => regexCell' = regexCell

\* C8: with concurrent callers, each Lazy closure runs at most once, a
\* caller matches only against an initialised regex, an initialised cell
\* never changes, and every call returns what it returns when run alone.
C8_InitialisedOnce == [](C8_Inv) /\ [][C8_Step]_vars

\* One thread is compiling the regex while another waits at the
\* dereference.
C8_Witness ==
  \E t1 \in Threads, t2 \in Threads :
    /\ t1 # t2
    /\ pc[t1] = "compile"
    /\ pc[t2] = "deref"

\* The number of steps a call is away from its return, at most.
Rank(p) ==
  CASE p = "new"            -> 6
    [] p = "deref"          -> 5
    [] p = "regex_closure"  -> 4
    [] p = "string_closure" -> 3
    [] p = "compile"        -> 2
    [] p = "match"          -> 1
    [] OTHER                -> 0

InCall == { "new", "deref", "regex_closure", "string_closure", "compile",
            "match" }

C9_Inv ==
  \A t \in Threads :
    /\ pc[t] # "panicked"
    /\ pc[t] = "deref" => ~LazyMustWait(regexCell)
    /\ pc[t] = "regex_closure" => ~LazyMustWait(stringCell)
    /\ Returned(t) =>
         /\ result[t].tag \in { "Ok", "InvalidLength", "InvalidFormat" }
         /\ result[t].tag = "Ok" <=> result[t].name # NoName

C9_Step ==
  \A t \in Threads :
    pc[t] \in InCall /\ pc'[t] # pc[t]
      => pc'[t] \in InCall \cup { "ret" } /\ Rank(pc'[t]) < Rank(pc[t])

\* C9: ContractName::new never panics and never waits on itself, each of
\* its steps brings it nearer to its return, and it returns Ok with a name
\* or one of the two errors without a name.
C9_Total == [](C9_Inv) /\ [][C9_Step]_vars

\* The first call, which ran both closures, was on a string with a
\* multi-byte character and returned an error without a name.
C9_Witness ==
  \E t \in Threads :
    /\ Returned(t)
    /\ StrLen(input[t]) > Len(input[t])
    /\ result[t] = Err("InvalidFormat")
    /\ inits.regex = 1

====
